---- MODULE Spec2Model ----
(***************************************************************************)
(* c64koala2ppm: a KoalaPaint picture (load address, bitmap, video matrix, *)
(* color RAM, background) is read from a file or standard input and        *)
(* written to standard output as a binary Portable Pixmap.                 *)
(*                                                                         *)
(* Memory is modelled as the bytes it holds (0..255); the promotion of a   *)
(* plain char to int and the right shift of a negative int are the         *)
(* implementation's choice and are drawn nondeterministically.  Floating   *)
(* point values are fixed point numbers (unit 10^-6, chroma 10^-4) with a  *)
(* NaN flag; the conversion of a NaN to int is undefined in C and is a     *)
(* choice among the values the usual targets produce.                      *)
(***************************************************************************)
EXTENDS Integers, Sequences, FiniteSets, TLC

\* ------------------------------------------------------------------------
\* Program constants
\* ------------------------------------------------------------------------
CardRows == 25
CardCols == 40
CardBytes == 8
PixelsPerByte == 4
LoadAddrSize == 2
BitmapSize == 8000
VideoSize == 1000
ColorSize == 1000
OutHeight == 200
OutWidth == 160
MaxVal == 255
BitmapFill == 27
\* a faulty fill, to try TruncatedScenarioAmended against: the nibbles of
\* the video fill exchanged
VideoFillSwapped == 5 * 16 + 2
VideoFill == 37
ColorFill == 6
BgFill == 0
UsageStatus == 1
\* a faulty status, to try ErrorExits against: a file that cannot be opened
\* reported as a usage error
OpenFailAsUsage == UsageStatus
OpenFailStatus == -1

\* ------------------------------------------------------------------------
\* Bounds of the model
\* ------------------------------------------------------------------------
\* at most this many option words on the command line
MaxOpts == 2
\* at most this many file name words on the command line
MaxFiles == 2

\* ------------------------------------------------------------------------
\* Floating point values
\* ------------------------------------------------------------------------
\* one, in the fixed point unit of luma and of r, g, b
Micro == 1000 * 1000
Num(x) == [nan |-> FALSE, v |-> x]
NaN == [nan |-> TRUE, v |-> 0]

\* a / b rounded to the nearest integer (b > 0)
RoundDiv(a, b) == (2 * a + b) \div (2 * b)

\* cos and sin of angle*pi/8, in units of 10^-4
CosTab == <<10000, 9239, 7071, 3827, 0, -3827, -7071, -9239,
            -10000, -9239, -7071, -3827, 0, 3827, 7071, 9239>>
SinTab == <<0, 3827, 7071, 9239, 10000, 9239, 7071, 3827,
            0, -3827, -7071, -9239, -10000, -9239, -7071, -3827>>
Cos4(angle) == CosTab[angle + 1]
Sin4(angle) == SinTab[angle + 1]

\* USCALE, VSCALE in units of 10^-4
USCALE == 1331
VSCALE == 1331

\* struct c64_color c64_colors[16]
c64_colors ==
    [i \in 0..15 |->
        << [angle |-> 0,  luma |-> 0,  saturation |-> 0],
           [angle |-> 0,  luma |-> 32, saturation |-> 0],
           [angle |-> 5,  luma |-> 10, saturation |-> 1],
           [angle |-> 13, luma |-> 20, saturation |-> 1],
           [angle |-> 2,  luma |-> 12, saturation |-> 1],
           [angle |-> 10, luma |-> 16, saturation |-> 1],
           [angle |-> 0,  luma |-> 8,  saturation |-> 1],
           [angle |-> 8,  luma |-> 24, saturation |-> 1],
           [angle |-> 6,  luma |-> 12, saturation |-> 1],
           [angle |-> 7,  luma |-> 8,  saturation |-> 1],
           [angle |-> 5,  luma |-> 16, saturation |-> 1],
           [angle |-> 0,  luma |-> 10, saturation |-> 0],
           [angle |-> 0,  luma |-> 15, saturation |-> 0],
           [angle |-> 10, luma |-> 24, saturation |-> 1],
           [angle |-> 0,  luma |-> 15, saturation |-> 1],
           [angle |-> 0,  luma |-> 20, saturation |-> 0] >>[i + 1]]

\* yuv->y = luma / 32.; u, v = c64->saturation * saturation * scale * cos/sin.
\* sat is the global saturation (an integer, or NaN); int * NaN is NaN even
\* when c64->saturation is 0.
c64_to_yuv(c64, sat, uscale, vscale) ==
    [y |-> Num(c64.luma * (Micro \div 32)),
     u |-> IF sat.nan THEN NaN
           ELSE Num(RoundDiv(c64.saturation * sat.v * uscale * Cos4(c64.angle), 10000)),
     v |-> IF sat.nan THEN NaN
           ELSE Num(RoundDiv(c64.saturation * sat.v * vscale * Sin4(c64.angle), 10000))]

\* BOUND(x): x < 0 -> 0, x > 1 -> 1; both comparisons are false for a NaN
BOUND(x) ==
    IF x.nan THEN x
    ELSE IF x.v < 0 THEN Num(0)
    ELSE IF x.v > Micro THEN Num(Micro)
    ELSE x

\* a faulty conversion, to try GreyPalette against: 255*r truncated, the
\* half left out
ToIntTruncating(x, nanconv) ==
    IF x.nan THEN nanconv ELSE (MaxVal * x.v) \div Micro

\* rgb->r = 255*r + 0.5, truncated to int; nanconv is what the conversion
\* of a NaN yields on the target
ToInt(x, nanconv) ==
    IF x.nan THEN nanconv ELSE (MaxVal * x.v + (Micro \div 2)) \div Micro

\* coefficient (in 10^-5) times chroma (in 10^-4), in 10^-6
Scaled(coef, c) == RoundDiv(coef * c, 1000)

yuv_to_rgb(yuv, nanconv) ==
    LET chromaNaN == yuv.u.nan \/ yuv.v.nan
        r == IF yuv.v.nan THEN NaN
             ELSE Num(yuv.y.v + Scaled(113983, yuv.v.v))
        g == IF chromaNaN THEN NaN
             ELSE Num(yuv.y.v + Scaled(-39465, yuv.u.v) + Scaled(-58060, yuv.v.v))
        b == IF yuv.u.nan THEN NaN
             ELSE Num(yuv.y.v + Scaled(203211, yuv.u.v))
    IN  [r |-> ToInt(BOUND(r), nanconv),
         g |-> ToInt(BOUND(g), nanconv),
         b |-> ToInt(BOUND(b), nanconv)]

c64_to_rgb(c64, sat, uscale, vscale, nanconv) ==
    yuv_to_rgb(c64_to_yuv(c64, sat, uscale, vscale), nanconv)

\* the table init_colors() leaves in c64colors[16]
init_colors(sat, nanconv) ==
    [i \in 0..15 |-> c64_to_rgb(c64_colors[i], sat, USCALE, VSCALE, nanconv)]

\* ------------------------------------------------------------------------
\* Bytes, chars and ints
\* ------------------------------------------------------------------------
Byte == 0..255

\* the value of a plain char holding byte b, promoted to int
CharToInt(b, signed) == IF signed /\ b >= 128 THEN b - 256 ELSE b

\* x >> n on a 32 bit int: arithmetic, or logical when the target shifts a
\* negative value that way (n is 0, 2, 4 or 6)
Shr(x, n, arith) ==
    IF x >= 0 \/ arith \/ n = 0 THEN x \div (2 ^ n)
    ELSE (x \div (2 ^ n)) + 2 ^ (32 - n)

\* x & mask for a mask 2^k - 1, on two's complement
BitAnd(x, mask) == x % (mask + 1)

\* (unsigned char) of an int, as printf's %c writes it
ToUChar(x) == x % 256

\* ------------------------------------------------------------------------
\* Input streams
\* ------------------------------------------------------------------------
FullLength == LoadAddrSize + BitmapSize + VideoSize + ColorSize + 1

\* An input is described by its length and the pattern its bytes follow;
\* the bytes are PatternByte(pat, 1), PatternByte(pat, 2), ...
PatternByte(p, i) == ((6 * p + 1) * i + 3 * p) % 256

MkStream(in) == [i \in 1..in.len |-> PatternByte(in.pat, i)]

Input(len, pat) == [len |-> len, pat |-> pat]

\* a picture of full length
FullPicture == Input(FullLength, 1)

\* inputs that end inside the load address, the bitmap, the video matrix,
\* the color RAM, or right before the background byte, and one that goes on
\* after it
OtherInputs ==
    {Input(len, 1) : len \in {0, LoadAddrSize, 4321, 8502, 9502, FullLength - 1, FullLength + 2}}

\* the named files fopen(name, "rb") succeeds on, and what they hold
FileSystem == [n \in {"pic.koa"} |-> Input(FullLength, 2)]

\* a faulty reader, to try ShortReadPolicy against: an item the stream
\* cannot fill leaves the buffer as it was
FreadWholeItems(buf, size, strm, pos) ==
    LET n == IF Len(strm) - pos >= size THEN size ELSE Len(strm) - pos
    IN  [buf |-> IF n = size THEN [i \in 0..(size - 1) |-> strm[pos + i + 1]] ELSE buf,
         pos |-> pos + n,
         ok  |-> n = size]

\* fread(buf, size, 1, file): the bytes the stream still has, up to size,
\* are stored at the start of buf; the result is 1 only for a full item
Fread(buf, size, strm, pos) ==
    LET n == IF Len(strm) - pos >= size THEN size ELSE Len(strm) - pos
    IN  [buf |-> [i \in 0..(size - 1) |-> IF i < n THEN strm[pos + i + 1] ELSE buf[i]],
         pos |-> pos + n,
         ok  |-> n = size]

\* memset(buf, fill, size)
Memset(fill, size) == [i \in 0..(size - 1) |-> fill]

\* the five freads of main, joined by &&: a short item ends the chain
ReadKoala(m, strm) ==
    LET r1 == Fread(m.loadaddr, LoadAddrSize, strm, 0)
        r2 == Fread(m.bitmap, BitmapSize, strm, r1.pos)
        r3 == Fread(m.video, VideoSize, strm, r2.pos)
        r4 == Fread(m.color, ColorSize, strm, r3.pos)
        r5 == Fread(m.bg, 1, strm, r4.pos)
    IN  IF ~r1.ok THEN [m EXCEPT !.loadaddr = r1.buf, !.short = TRUE]
        ELSE IF ~r2.ok THEN [m EXCEPT !.loadaddr = r1.buf, !.bitmap = r2.buf,
                                      !.short = TRUE]
        ELSE IF ~r3.ok THEN [m EXCEPT !.loadaddr = r1.buf, !.bitmap = r2.buf,
                                      !.video = r3.buf, !.short = TRUE]
        ELSE IF ~r4.ok THEN [m EXCEPT !.loadaddr = r1.buf, !.bitmap = r2.buf,
                                      !.video = r3.buf, !.color = r4.buf,
                                      !.short = TRUE]
        ELSE [m EXCEPT !.loadaddr = r1.buf, !.bitmap = r2.buf, !.video = r3.buf,
                       !.color = r4.buf, !.bg = r5.buf, !.short = ~r5.ok]

\* the buffers of main after the memsets; loadaddr is not initialised and
\* is never read
FallbackMem ==
    [loadaddr |-> Memset(0, LoadAddrSize),
     bitmap   |-> Memset(BitmapFill, BitmapSize),
     video    |-> Memset(VideoFill, VideoSize),
     color    |-> Memset(ColorFill, ColorSize),
     bg       |-> Memset(BgFill, 1),
     short    |-> FALSE]

\* ------------------------------------------------------------------------
\* Pixel reconstruction
\* ------------------------------------------------------------------------
\* bitmap[cardy][cardx][y] of char bitmap[25][40][8]
BitmapAt(bitmap, cardy, cardx, y) ==
    bitmap[(cardy * CardCols + cardx) * CardBytes + y]

\* a[cardy][cardx] of char a[25][40]
CardAt(a, cardy, cardx) == a[cardy * CardCols + cardx]

\* colors[0] = c64colors[(unsigned char)bg & 0x0f]
BgColor(palette, bg) == palette[BitAnd(bg[0], 15)]

\* colors[1] = c64colors[(video[cardy][cardx]>>4) & 0x0f]
VideoHiIndex(vb, signed, arith) == BitAnd(Shr(CharToInt(vb, signed), 4, arith), 15)
\* colors[2] = c64colors[(video[cardy][cardx]) & 0x0f]
VideoLoIndex(vb, signed) == BitAnd(CharToInt(vb, signed), 15)
\* a faulty index, to try IgnoredBits against: the high nibble of the color
\* RAM byte
ColorIndexHigh(cb, signed) == BitAnd(CharToInt(cb, signed) \div 16, 15)
\* colors[3] = c64colors[(color[cardy][cardx]) & 0x0f]
ColorIndex(cb, signed) == BitAnd(CharToInt(cb, signed), 15)
\* (c>>b) & 03, c = bitmap[cardy][cardx][y]
PixelCode(bb, b, signed, arith) == BitAnd(Shr(CharToInt(bb, signed), b, arith), 3)

\* the bit positions for (b = 0; b < 8; b += 2) visits
BitPositions == {0, 2, 4, 6}

\* What an implementation (plain char signed or not, >> of a negative int
\* arithmetic or not) makes of the index expressions, for each byte a char
\* can hold.
Impl(signed, arith) ==
    [code    |-> [bb \in Byte |-> [b \in BitPositions |-> PixelCode(bb, b, signed, arith)]],
     videoHi |-> [vb \in Byte |-> VideoHiIndex(vb, signed, arith)],
     videoLo |-> [vb \in Byte |-> VideoLoIndex(vb, signed)],
     color   |-> [cb \in Byte |-> ColorIndex(cb, signed)]]

\* the implementations a build can be made for
Implementations == {Impl(signed, arith) : signed \in BOOLEAN, arith \in BOOLEAN}

\* a faulty table, to try RoundTripAmended against: the nibbles of the video
\* matrix byte taken the other way round
CardColorsSwapped(palette, color0, vb, cb, impl) ==
    (0 :> color0) @@ (1 :> palette[impl.videoLo[vb]])
        @@ (2 :> palette[impl.videoHi[vb]]) @@ (3 :> palette[impl.color[cb]])

\* colors[1..3] of a card; colors[0] is kept
CardColors(palette, color0, vb, cb, impl) ==
    (0 :> color0) @@ (1 :> palette[impl.videoHi[vb]])
        @@ (2 :> palette[impl.videoLo[vb]]) @@ (3 :> palette[impl.color[cb]])

\* a faulty column, to try PixelReconstruction against: the lowest bit pair
\* stored leftmost
OutColumnMirrored(outx, b) == PixelsPerByte * outx + (b \div 2)
\* a faulty row, to try RasterPopulated against: every byte of a card stored
\* to the card's first row
OutRowStuck(cardy, y) == CardBytes * cardy

\* outimage[outy][4*outx+(6-b)/2]
OutColumn(outx, b) == PixelsPerByte * outx + ((6 - b) \div 2)
OutRow(cardy, y) == CardBytes * cardy + y

\* a store to a[i][j] lands in the array only when both indices are in range
InArray(a, i, j) == i \in DOMAIN a /\ j \in DOMAIN a[i]

\* for (b = 0; b < 8; b += 2): img is [outimage, assigned, oob]; assigned
\* counts the stores into each raster cell, oob records a store outside the
\* array, after which nothing more is stored
RECURSIVE PixelLoop(_, _, _, _, _, _, _)
PixelLoop(b, bb, colors, outy, outx, impl, img) ==
    IF b >= 8 THEN img
    ELSE IF InArray(img.outimage, outy, OutColumn(outx, b))
    THEN PixelLoop(b + 2, bb, colors, outy, outx, impl,
            [img EXCEPT
                !.outimage[outy][OutColumn(outx, b)] = colors[impl.code[bb][b]],
                !.assigned[outy][OutColumn(outx, b)] = @ + 1])
    ELSE [img EXCEPT !.oob = TRUE]

\* for (y = 0; y < 8; ++y); the copy kept in outbitmap is never read and is
\* left out
RECURSIVE RowLoop(_, _, _, _, _, _, _)
RowLoop(y, cardy, cardx, bitmap, colors, impl, img) ==
    IF y >= CardBytes \/ img.oob THEN img
    ELSE RowLoop(y + 1, cardy, cardx, bitmap, colors, impl,
            PixelLoop(0, BitmapAt(bitmap, cardy, cardx, y), colors,
                      OutRow(cardy, y), cardx, impl, img))

\* for (cardx = 0; cardx < 40; ++cardx)
RECURSIVE CardLoop(_, _, _, _, _, _, _)
CardLoop(cardx, cardy, m, palette, color0, impl, img) ==
    IF cardx >= CardCols \/ img.oob THEN img
    ELSE CardLoop(cardx + 1, cardy, m, palette, color0, impl,
            RowLoop(0, cardy, cardx, m.bitmap,
                CardColors(palette, color0, CardAt(m.video, cardy, cardx),
                           CardAt(m.color, cardy, cardx), impl),
                impl, img))

\* for (cardy = 0; cardy < 25; ++cardy), from block row cardy on
RECURSIVE CardRowLoop(_, _, _, _, _, _)
CardRowLoop(cardy, m, palette, color0, impl, img) ==
    IF cardy >= CardRows \/ img.oob THEN img
    ELSE CardRowLoop(cardy + 1, m, palette, color0, impl,
            CardLoop(0, cardy, m, palette, color0, impl, img))

\* the stack arrays of main before the loops store into them; a cell that
\* was never stored into holds Indeterminate
Indeterminate == [r |-> -1, g |-> -1, b |-> -1]
FreshImage ==
    [outimage  |-> [y \in 0..(OutHeight - 1) |-> [x \in 0..(OutWidth - 1) |-> Indeterminate]],
     assigned  |-> [y \in 0..(OutHeight - 1) |-> [x \in 0..(OutWidth - 1) |-> 0]],
     oob       |-> FALSE]

\* ------------------------------------------------------------------------
\* Pixmap writer
\* ------------------------------------------------------------------------
\* printf's %d of a non-negative int, as ASCII codes
RECURSIVE Decimal(_)
Decimal(n) == IF n < 10 THEN <<48 + n>> ELSE Decimal(n \div 10) \o <<48 + (n % 10)>>

\* printf("P6\n%d %d\n%d\n", 160, 200, 255)
HeaderBytes ==
    <<80, 54, 10>> \o Decimal(OutWidth) \o <<32>> \o Decimal(OutHeight) \o <<10>>
        \o Decimal(MaxVal) \o <<10>>

\* for (y ...) for (x ...) printf("%c%c%c", r, g, b): byte i of the payload
\* is a component of pixel (i - 1) / 3 in row-major order
PixelBytes(outimage) ==
    [i \in 1..(3 * OutWidth * OutHeight) |->
        LET n  == (i - 1) \div 3
            px == outimage[n \div OutWidth][n % OutWidth]
        IN  CASE (i - 1) % 3 = 0 -> ToUChar(px.r)
              [] (i - 1) % 3 = 1 -> ToUChar(px.g)
              [] OTHER -> ToUChar(px.b)]

\* ------------------------------------------------------------------------
\* Command line
\* ------------------------------------------------------------------------
\* the values atof(optarg) is given: negative, zero, SATURATION, larger, NaN
SatArgs == {Num(-1), Num(0), Num(1), Num(2), NaN}

\* SATURATION
DefaultSaturation == Num(1)

\* saturation < 0: false for a NaN
IsNegative(x) == ~x.nan /\ x.v < 0

\* what (int)NaN yields: 0x80000000 (x86) or 0 (ARM)
NaNConvs == {-2147483647 - 1, 0}

FileNames == {"-", "pic.koa", "missing.koa"}

OptWord(o, a) == [opt |-> o, arg |-> a, name |-> ""]
FileWord(n) == [opt |-> "", arg |-> Num(0), name |-> n]

\* option words: -h, -L, -s <value>, and a word getopt answers '?' for
\* (an unknown flag, or -s without a value)
OptWords ==
    {OptWord("h", Num(0)), OptWord("L", Num(0)), OptWord("?", Num(0))}
        \cup {OptWord("s", a) : a \in SatArgs}
FileWords == {FileWord(n) : n \in FileNames}

SeqsUpTo(S, n) == UNION {[1..k -> S] : k \in 0..n}

\* the command lines: option words first, file names after them
CommandLines == {o \o f : o \in SeqsUpTo(OptWords, MaxOpts), f \in SeqsUpTo(FileWords, MaxFiles)}

\* what a run is given: a command line and the bytes waiting on standard
\* input.  Every command line is run on a full picture, and the plain
\* command on every other input.
Runs ==
    {[argv |-> a, stdin |-> FullPicture] : a \in CommandLines}
        \cup {[argv |-> <<>>, stdin |-> in] : in \in OtherInputs}

\* ------------------------------------------------------------------------
\* State
\* ------------------------------------------------------------------------
VARIABLES
    pc,             \* where main is
    argv,           \* argv[optind..argc-1]
    stdin,          \* the input waiting on standard input
    saturation,     \* float saturation
    koalafilename,  \* char *koalafilename ("NULL" when null)
    koalafile,      \* FILE *koalafile: "unset", "stdin" or "file"
    fileOpen,       \* the named file is open
    stream,         \* the bytes the input source holds
    c64colors,      \* struct rgb_color c64colors[16]
    mem,            \* loadaddr, bitmap, video, color, bg of main
    colors,         \* struct rgb_color colors[4]
    cardy,          \* the outer loop's counter
    img,            \* outimage of main, with the store counts
    stdout,         \* the bytes written to standard output
    stderr,         \* the messages written to standard error
    exitStatus,     \* the exit status the parent sees
    exitPath        \* the statement the run ended at

vars == <<pc, argv, stdin, saturation, koalafilename, koalafile, fileOpen, stream,
          c64colors, mem, colors, cardy, img, stdout, stderr, exitStatus, exitPath>>

Unset == "indeterminate"

Init ==
    /\ pc = "main"
    /\ \E run \in Runs : argv = run.argv /\ stdin = run.stdin
    /\ saturation = Num(0)
    /\ koalafilename = "NULL"
    /\ koalafile = "unset"
    /\ fileOpen = FALSE
    /\ stream = <<>>
    /\ c64colors = Unset
    /\ mem = Unset
    /\ colors = Unset
    /\ cardy = 0
    /\ img = Unset
    /\ stdout = <<>>
    /\ stderr = <<>>
    /\ exitStatus = -1
    /\ exitPath = "running"

\* exit(status), or return status from main
Exit(status, messages, path) ==
    /\ pc' = "exited"
    /\ exitStatus' = ToUChar(status)
    /\ stderr' = stderr \o messages
    /\ exitPath' = path

\* getargs: saturation = SATURATION
GetargsStart ==
    /\ pc = "main"
    /\ pc' = "getopt"
    /\ saturation' = DefaultSaturation
    /\ UNCHANGED <<argv, stdin, koalafilename, koalafile, fileOpen, stream, c64colors,
                   mem, colors, cardy, img, stdout, stderr, exitStatus, exitPath>>

NextOpt == IF argv # <<>> THEN Head(argv).opt ELSE ""

\* case 'h': usage(); exit(0)
OptHelp ==
    /\ pc = "getopt" /\ NextOpt = "h"
    /\ Exit(0, <<"usage">>, "help")
    /\ UNCHANGED <<argv, stdin, saturation, koalafilename, koalafile, fileOpen, stream,
                   c64colors, mem, colors, cardy, img, stdout>>

\* case 'L': license(); exit(0)
OptLicense ==
    /\ pc = "getopt" /\ NextOpt = "L"
    /\ Exit(0, <<"license">>, "license")
    /\ UNCHANGED <<argv, stdin, saturation, koalafilename, koalafile, fileOpen, stream,
                   c64colors, mem, colors, cardy, img, stdout>>

\* case 's': saturation = atof(optarg); a negative value is refused
OptSaturation ==
    /\ pc = "getopt" /\ NextOpt = "s"
    /\ saturation' = Head(argv).arg
    /\ IF IsNegative(Head(argv).arg)
       THEN /\ Exit(UsageStatus, <<"saturation must be >= 0">>, "negative saturation")
            /\ argv' = argv
       ELSE /\ argv' = Tail(argv)
            /\ UNCHANGED <<pc, stderr, exitStatus, exitPath>>
    /\ UNCHANGED <<stdin, koalafilename, koalafile, fileOpen, stream, c64colors, mem,
                   colors, cardy, img, stdout>>

\* default: usage(); exit(1), after getopt's own message
OptUnknown ==
    /\ pc = "getopt" /\ NextOpt = "?"
    /\ Exit(UsageStatus, <<"invalid option", "usage">>, "unknown flag")
    /\ UNCHANGED <<argv, stdin, saturation, koalafilename, koalafile, fileOpen, stream,
                   c64colors, mem, colors, cardy, img, stdout>>

\* optind < argc - 1
TooManyFiles ==
    /\ pc = "getopt" /\ NextOpt = "" /\ Len(argv) > 1
    /\ Exit(UsageStatus, <<"too many filenames", "usage">>, "too many filenames")
    /\ UNCHANGED <<argv, stdin, saturation, koalafilename, koalafile, fileOpen, stream,
                   c64colors, mem, colors, cardy, img, stdout>>

\* optind == argc - 1 && strcmp("-", argv[optind]), or no file name;
\* argv is not read again
GetargsReturn ==
    /\ pc = "getopt" /\ NextOpt = "" /\ Len(argv) <= 1
    /\ koalafilename' = IF Len(argv) = 1 /\ argv[1].name # "-"
                        THEN argv[1].name ELSE "NULL"
    /\ argv' = <<>>
    /\ pc' = "open"
    /\ UNCHANGED <<stdin, saturation, koalafile, fileOpen, stream, c64colors, mem,
                   colors, cardy, img, stdout, stderr, exitStatus, exitPath>>

\* koalafile = fopen(koalafilename, "rb") succeeds
OpenFile ==
    /\ pc = "open" /\ koalafilename # "NULL" /\ koalafilename \in DOMAIN FileSystem
    /\ koalafile' = "file"
    /\ fileOpen' = TRUE
    /\ stream' = MkStream(FileSystem[koalafilename])
    /\ pc' = "init_colors"
    /\ UNCHANGED <<argv, stdin, saturation, koalafilename, c64colors, mem, colors,
                   cardy, img, stdout, stderr, exitStatus, exitPath>>

\* fopen fails: return -1
OpenFail ==
    /\ pc = "open" /\ koalafilename # "NULL" /\ koalafilename \notin DOMAIN FileSystem
    /\ Exit(OpenFailStatus, <<"could not open">>, "open failure")
    /\ UNCHANGED <<argv, stdin, saturation, koalafilename, koalafile, fileOpen, stream,
                   c64colors, mem, colors, cardy, img, stdout>>

\* koalafile = stdin
UseStdin ==
    /\ pc = "open" /\ koalafilename = "NULL"
    /\ koalafile' = "stdin"
    /\ stream' = MkStream(stdin)
    /\ pc' = "init_colors"
    /\ UNCHANGED <<argv, stdin, saturation, koalafilename, fileOpen, c64colors, mem,
                   colors, cardy, img, stdout, stderr, exitStatus, exitPath>>

\* init_colors()
InitColors ==
    /\ pc = "init_colors"
    /\ \E nanconv \in NaNConvs : c64colors' = init_colors(saturation, nanconv)
    /\ pc' = "memset"
    /\ UNCHANGED <<argv, stdin, saturation, koalafilename, koalafile, fileOpen, stream,
                   mem, colors, cardy, img, stdout, stderr, exitStatus, exitPath>>

\* the three memsets and bg = 0x00
MemsetFallback ==
    /\ pc = "memset"
    /\ mem' = FallbackMem
    /\ pc' = "fread"
    /\ UNCHANGED <<argv, stdin, saturation, koalafilename, koalafile, fileOpen, stream,
                   c64colors, colors, cardy, img, stdout, stderr, exitStatus, exitPath>>

\* if (!(fread && fread && fread && fread && fread)) fprintf(stderr, ...)
ReadInput ==
    /\ pc = "fread"
    /\ mem' = ReadKoala(mem, stream)
    /\ stderr' = IF ReadKoala(mem, stream).short
                 THEN Append(stderr, "koala file is too short")
                 ELSE stderr
    /\ pc' = "colors0"
    /\ UNCHANGED <<argv, stdin, saturation, koalafilename, koalafile, fileOpen, stream,
                   c64colors, colors, cardy, img, stdout, exitStatus, exitPath>>

\* colors[0] = c64colors[(unsigned char)bg & 0x0f]
SetBackground ==
    /\ pc = "colors0"
    /\ colors' = [k \in 0..3 |-> IF k = 0 THEN BgColor(c64colors, mem.bg)
                                  ELSE Indeterminate]
    /\ cardy' = 0
    /\ pc' = "cards"
    /\ UNCHANGED <<argv, stdin, saturation, koalafilename, koalafile, fileOpen, stream,
                   c64colors, mem, img, stdout, stderr, exitStatus, exitPath>>

\* the nested loops over cardy, cardx, y and b
ReconstructRaster ==
    /\ pc = "cards"
    /\ \E impl \in Implementations :
        /\ img' = CardRowLoop(0, mem, c64colors, colors[0], impl, FreshImage)
        /\ colors' = CardColors(c64colors, colors[0],
                                CardAt(mem.video, CardRows - 1, CardCols - 1),
                                CardAt(mem.color, CardRows - 1, CardCols - 1), impl)
    /\ cardy' = CardRows
    /\ pc' = "header"
    /\ UNCHANGED <<argv, stdin, saturation, koalafilename, koalafile, fileOpen, stream,
                   c64colors, mem, stdout, stderr, exitStatus, exitPath>>

\* printf("P6\n%d %d\n%d\n", 160, 200, 255)
PrintHeader ==
    /\ pc = "header"
    /\ stdout' = stdout \o HeaderBytes
    /\ pc' = "pixels"
    /\ UNCHANGED <<argv, stdin, saturation, koalafilename, koalafile, fileOpen, stream,
                   c64colors, mem, colors, cardy, img, stderr, exitStatus, exitPath>>

\* the two output loops, and return 0
PrintPixels ==
    /\ pc = "pixels"
    /\ stdout' = stdout \o PixelBytes(img.outimage)
    /\ Exit(0, <<>>, "return 0")
    /\ UNCHANGED <<argv, stdin, saturation, koalafilename, koalafile, fileOpen, stream,
                   c64colors, mem, colors, cardy, img>>

Next ==
    \/ GetargsStart
    \/ OptHelp
    \/ OptLicense
    \/ OptSaturation
    \/ OptUnknown
    \/ TooManyFiles
    \/ GetargsReturn
    \/ OpenFile
    \/ OpenFail
    \/ UseStdin
    \/ InitColors
    \/ MemsetFallback
    \/ ReadInput
    \/ SetBackground
    \/ ReconstructRaster
    \/ PrintHeader
    \/ PrintPixels

Spec == Init /\ [][Next]_vars

\* ------------------------------------------------------------------------
\* Vocabulary of the properties
\* ------------------------------------------------------------------------
\* main has returned 0
Converted == pc = "exited" /\ exitPath = "return 0"

\* the fread chain has run
ReadDone == pc \in {"colors0", "cards", "header", "pixels"} \/ Converted

\* the reconstruction loops have finished
RasterDone == pc \in {"header", "pixels"} \/ Converted

\* init_colors has run
PaletteBuilt == pc \in {"memset", "fread"} \/ ReadDone

\* the state the loops leave: the raster is complete and nothing has been
\* written yet
RasterChecked == pc = "header"

\* the 2-bit field of byte bb that is k-th from the left (k = 0 holds the
\* most significant pair): (bb >> (6-2k)) & 3 on the byte's value
PairFromLeft(bb, k) == (bb \div (4 ^ (3 - k))) % 4
HighNibble(v) == v \div 16
LowNibble(v) == v % 16

\* local = [palette[background & 0xF], palette[(videoByte >> 4) & 0xF],
\*          palette[videoByte & 0xF], palette[colorByte & 0xF]]
LocalTable(cy, cx) ==
    << c64colors[LowNibble(mem.bg[0])],
       c64colors[HighNibble(CardAt(mem.video, cy, cx))],
       c64colors[LowNibble(CardAt(mem.video, cy, cx))],
       c64colors[LowNibble(CardAt(mem.color, cy, cx))] >>

\* the raster cell of block (cy, cx), row y, column k
Cell(cy, cx, y, k) == img.outimage[8 * cy + y][4 * cx + k]

\* block row cy is as the claim says
BlockRowReconstructed(cy) ==
    \A cx \in 0..(CardCols - 1), y \in 0..(CardBytes - 1), k \in 0..3 :
        Cell(cy, cx, y, k)
            = LocalTable(cy, cx)[PairFromLeft(BitmapAt(mem.bitmap, cy, cx, y), k) + 1]

\* for every value a byte can have, the index expressions of the loops give
\* the nibbles and the bit pairs of the byte's value 0..255, whether plain
\* char is signed or not and however >> treats a negative int
IndexExpressionsExact ==
    \A impl \in Implementations, v \in Byte :
        /\ impl.videoHi[v] = HighNibble(v)
        /\ impl.videoLo[v] = LowNibble(v)
        /\ impl.color[v] = LowNibble(v)
        /\ \A k \in 0..3 : impl.code[v][6 - 2 * k] = PairFromLeft(v, k)

\* C1: every raster cell at row 8*cardy+y, column 4*cardx+k holds
\* local[(bitmapByte >> (6-2k)) & 3], whatever the bytes are (values from
\* 0x80 up included).
PixelReconstruction ==
    RasterChecked =>
        /\ IndexExpressionsExact
        /\ \A cy \in 0..(CardRows - 1) : BlockRowReconstructed(cy)

\* the raster is complete, the palette has distinct entries, and a block
\* whose bitmap, video and color bytes are all 0x80 or more was drawn over
\* a background byte of 0x80 or more
PixelReconstructionWitness ==
    /\ pc = "header"
    /\ saturation = Num(1)
    /\ mem.bg[0] >= 128
    /\ \E cx \in 0..(CardCols - 1) :
        /\ BitmapAt(mem.bitmap, 0, cx, 0) >= 128
        /\ CardAt(mem.video, 0, cx) >= 128
        /\ CardAt(mem.color, 0, cx) >= 128
        /\ Cell(0, cx, 0, 0) # Cell(0, cx, 0, 3)

\* the rows of blocks whose bitmap byte is 11 10 01 00
PatternE4 == 14 * 16 + 4
RowsWithE4 ==
    {p \in (0..(CardRows - 1)) \X (0..(CardCols - 1)) \X (0..(CardBytes - 1)) :
        BitmapAt(mem.bitmap, p[1], p[2], p[3]) = PatternE4}

\* the four cells of such a row, left to right
FourCells(p) == [k \in 1..4 |-> Cell(p[1], p[2], p[3], k - 1)]

\* C2 as stated: a bitmap byte 11 10 01 00 gives, left to right,
\* background, video high nibble, video low nibble, color RAM.
RoundTripAsStated ==
    RasterChecked =>
        \A p \in RowsWithE4 :
            LET l == LocalTable(p[1], p[2])
            IN  FourCells(p) = <<l[1], l[2], l[3], l[4]>>

\* C2 amended: a bitmap byte 11 10 01 00 gives, left to right, color RAM,
\* video low nibble, video high nibble, background.
RoundTripAmended ==
    RasterChecked =>
        \A p \in RowsWithE4 :
            LET l == LocalTable(p[1], p[2])
            IN  FourCells(p) = <<l[4], l[3], l[2], l[1]>>

\* the raster is complete and holds a row drawn from the byte 11 10 01 00
\* whose four colors differ from each other
RoundTripWitness ==
    /\ pc = "header"
    /\ \E p \in RowsWithE4 :
        \A j \in 1..4, k \in 1..4 : j # k => FourCells(p)[j] # FourCells(p)[k]

\* ------------------------------------------------------------------------
\* Short input
\* ------------------------------------------------------------------------
TooShort == "koala file is too short"
Warnings == Cardinality({i \in DOMAIN stderr : stderr[i] = TooShort})

\* the length of the complete pixmap: header and one byte per component
PixmapLength == Len(HeaderBytes) + 3 * OutWidth * OutHeight

\* a field read from offset off of the stream: the bytes the stream has
\* there, the fill value where the stream has ended
FieldFromStream(field, off, fill) ==
    \A i \in DOMAIN field :
        field[i] = IF off + i + 1 <= Len(stream) THEN stream[off + i + 1] ELSE fill

\* every section holds the bytes the stream supplied, taken in stream order
\* after the load address, and its fallback value (0x1b, 0x25, 0x06, 0x00)
\* in the rest
SectionsFilled ==
    /\ FieldFromStream(mem.bitmap, 2, 16 + 11)
    /\ FieldFromStream(mem.video, 2 + 8000, 2 * 16 + 5)
    /\ FieldFromStream(mem.color, 2 + 8000 + 1000, 6)
    /\ FieldFromStream(mem.bg, 2 + 8000 + 1000 + 1000, 0)

\* C3: when the stream ends before all five sections are read, every section
\* keeps the bytes it received and its fallback pattern elsewhere, exactly
\* one warning is written to the error stream, and the run still ends with
\* status 0 and the complete pixmap.
ShortReadPolicy ==
    (ReadDone /\ Len(stream) < 10003) =>
        /\ Warnings = 1
        /\ pc \in {"colors0", "exited"} => SectionsFilled
        /\ pc = "exited" => /\ exitStatus = 0
                            /\ Len(stdout) = PixmapLength

\* a run whose stream ended inside the video matrix has finished
ShortReadWitness ==
    /\ Converted
    /\ Len(stream) > LoadAddrSize + BitmapSize
    /\ Len(stream) < LoadAddrSize + BitmapSize + VideoSize
    /\ Warnings = 1
    /\ Len(stdout) = PixmapLength

\* the stream holds the load address and nothing else
OnlyLoadAddress == ReadDone /\ Len(stream) = LoadAddrSize

\* the fallback bytes of the truncated scenario: 0x1b, 0x25, 0x06, 0x00
AllFallback ==
    /\ \A i \in DOMAIN mem.bitmap : mem.bitmap[i] = 16 + 11
    /\ \A i \in DOMAIN mem.video : mem.video[i] = 2 * 16 + 5
    /\ \A i \in DOMAIN mem.color : mem.color[i] = 6
    /\ mem.bg[0] = 0

\* every raster row repeats the palette entries idx[1..4] from left to right
RowsRepeat(idx) ==
    \A row \in 0..(OutHeight - 1), col \in 0..(OutWidth - 1) :
        img.outimage[row][col] = c64colors[idx[(col % 4) + 1]]

\* the palette indices of the four local colors in the truncated scenario:
\* background 0, video high nibble 2, video low nibble 5, color RAM 6
TruncatedLocal == <<0, 2, 5, 6>>

\* the row a sequence of four codes gives when the codes are taken in the
\* order the bit pairs are decoded (lowest pair first, rightmost cell first)
InDecodeOrder(codes) ==
    [k \in 1..4 |-> TruncatedLocal[codes[5 - k] + 1]]

\* the row a sequence of four codes gives when the codes are taken left to
\* right
LeftToRight(codes) ==
    [k \in 1..4 |-> TruncatedLocal[codes[k] + 1]]

\* the codes the loop decodes from byte bb, lowest bit pair first, on every
\* implementation
CodesDecoded(bb) ==
    {[k \in 1..4 |-> impl.code[bb][2 * (k - 1)]] : impl \in Implementations}

\* the same codes, highest bit pair first
CodesFromLeft(bb) ==
    {[k \in 1..4 |-> impl.code[bb][8 - 2 * k]] : impl \in Implementations}

\* C4 as stated: a 2-byte input gives the warning, fallback bytes, status 0,
\* and a raster in which every 4-pixel group is drawn from the codes
\* 3, 2, 3, 0 (in either reading of their order).
TruncatedScenarioAsStated ==
    OnlyLoadAddress =>
        /\ Warnings = 1
        /\ pc \in {"colors0", "exited"} => AllFallback
        /\ \/ /\ CodesDecoded(BitmapFill) = {<<3, 2, 3, 0>>}
              /\ RasterChecked => RowsRepeat(InDecodeOrder(<<3, 2, 3, 0>>))
           \/ /\ CodesFromLeft(BitmapFill) = {<<3, 2, 3, 0>>}
              /\ RasterChecked => RowsRepeat(LeftToRight(<<3, 2, 3, 0>>))
        /\ pc = "exited" => exitStatus = 0

\* C4 amended: a 2-byte input gives the warning, fallback bytes, status 0,
\* and a raster in which every 4-pixel group is drawn from the codes
\* 3, 2, 1, 0 of the byte 0x1b (lowest pair first), that is, from left to
\* right: background, video high nibble, video low nibble, color RAM.
TruncatedScenarioAmended ==
    OnlyLoadAddress =>
        /\ Warnings = 1
        /\ pc \in {"colors0", "exited"} => AllFallback
        /\ CodesDecoded(BitmapFill) = {<<3, 2, 1, 0>>}
        /\ RasterChecked => RowsRepeat(InDecodeOrder(<<3, 2, 1, 0>>))
        /\ pc = "exited" => exitStatus = 0 /\ Len(stdout) = PixmapLength

\* the 2-byte run has finished, with a palette that tells the four local
\* colors apart
TruncatedScenarioWitness ==
    /\ Converted
    /\ Len(stream) = LoadAddrSize
    /\ \A j \in 1..4, k \in 1..4 :
        j # k => c64colors[TruncatedLocal[j]] # c64colors[TruncatedLocal[k]]

\* ------------------------------------------------------------------------
\* The pixmap
\* ------------------------------------------------------------------------
\* "P6\n160 200\n255\n"
HeaderText == <<80, 54, 10, 49, 54, 48, 32, 50, 48, 48, 10, 50, 53, 53, 10>>

\* the three payload bytes of cell (row, col) are its r, g, b, each a byte
CellWritten(row, col) ==
    LET off == Len(HeaderText) + 3 * (OutWidth * row + col)
        cell == img.outimage[row][col]
    IN  /\ cell.r \in Byte /\ cell.g \in Byte /\ cell.b \in Byte
        /\ stdout[off + 1] = cell.r
        /\ stdout[off + 2] = cell.g
        /\ stdout[off + 3] = cell.b

\* C5: on every run that reaches the writer, standard output is the 15
\* header bytes "P6\n160 200\n255\n" followed by 96000 payload bytes, the
\* bytes at 3*(160*row+col)+0,1,2 being the r, g, b of cell (row, col),
\* each in 0..255.
PixmapShape ==
    Converted =>
        /\ Len(stdout) = 96015
        /\ SubSeq(stdout, 1, Len(HeaderText)) = HeaderText
        /\ \A row \in 0..(OutHeight - 1), col \in 0..(OutWidth - 1) :
            CellWritten(row, col)

\* ------------------------------------------------------------------------
\* Exits
\* ------------------------------------------------------------------------
UsageErrors == {"unknown flag", "too many filenames", "negative saturation"}

\* C6: a usage error (unknown flag, more than one filename, negative
\* saturation) ends with status 1, a failure to open the named file with a
\* non-zero status other than 1, both after a message on the error stream
\* and with nothing on standard output; help, license and a conversion end
\* with status 0.
ErrorExits ==
    pc = "exited" =>
        /\ exitPath \in UsageErrors =>
            exitStatus = 1 /\ stderr # <<>> /\ stdout = <<>>
        /\ exitPath = "open failure" =>
            exitStatus \notin {0, 1} /\ stderr # <<>> /\ stdout = <<>>
        /\ exitPath \in {"help", "license", "return 0"} => exitStatus = 0

\* the run named a file that could not be opened, and has ended
ErrorExitsWitness ==
    /\ pc = "exited"
    /\ exitPath = "open failure"
    /\ koalafilename = "missing.koa"
    /\ exitStatus > 1

\* ------------------------------------------------------------------------
\* The palette
\* ------------------------------------------------------------------------
\* floor(255 * luma / 32 + 1/2)
GreyLevel(luma) == (2 * 255 * luma + 32) \div 64

\* C7: with the saturation set to 0, each of the 16 palette entries has
\* r = g = b = floor(255*luma/32 + 1/2) for its luma.
GreyPalette ==
    (PaletteBuilt /\ saturation = Num(0)) =>
        \A i \in 0..15 :
            /\ c64colors[i].r = GreyLevel(c64_colors[i].luma)
            /\ c64colors[i].g = c64colors[i].r
            /\ c64colors[i].b = c64colors[i].r

\* the palette was built with saturation 0; it holds black, white and a
\* level that the rounding decides (luma 15 gives 119.53..., so 120)
GreyPaletteWitness ==
    /\ PaletteBuilt
    /\ saturation = Num(0)
    /\ c64colors[0].r = 0
    /\ c64colors[1].r = 255
    /\ c64colors[12].r = 120

\* ------------------------------------------------------------------------
\* The input source
\* ------------------------------------------------------------------------
\* C8: on every exit path the input that was acquired has been closed by
\* the program before it ends; a named file that was opened is never still
\* open when main returns.
InputReleased == pc = "exited" => ~fileOpen

\* ------------------------------------------------------------------------
\* The raster
\* ------------------------------------------------------------------------
\* every cell of the raster has been stored once
AllStoredOnce ==
    \A row \in 0..(OutHeight - 1), col \in 0..(OutWidth - 1) :
        img.assigned[row][col] = 1

\* C9: the stores of the reconstruction loops stay inside the 200x160
\* raster and hit every cell exactly once, and no byte of output is written
\* before all 32000 cells have been stored.
RasterPopulated ==
    /\ RasterDone => ~img.oob
    /\ pc = "header" => AllStoredOnce
    /\ stdout # <<>> => RasterDone /\ AllStoredOnce

\* the header has been written and the payload has not; the corners of the
\* raster have been stored
RasterPopulatedWitness ==
    /\ pc = "pixels"
    /\ stdout = HeaderBytes
    /\ img.assigned[0][0] = 1
    /\ img.assigned[OutHeight - 1][OutWidth - 1] = 1

\* ------------------------------------------------------------------------
\* Bits of the input that are not used
\* ------------------------------------------------------------------------
\* the raster main builds from a stream and a palette
Raster(strm, palette, impl) ==
    LET m == ReadKoala(FallbackMem, strm)
    IN  CardRowLoop(0, m, palette, BgColor(palette, m.bg), impl, FreshImage).outimage

\* what main writes to standard output for a stream and a palette
Convert(strm, palette, impl) ==
    HeaderBytes \o PixelBytes(Raster(strm, palette, impl))

ColorStart == LoadAddrSize + BitmapSize + VideoSize

\* the stream that differs from strm in every bit of the load address, of
\* the high nibble of every color RAM byte and of the high nibble of the
\* background byte, and in no other bit
Twin(strm) ==
    [i \in DOMAIN strm |->
        IF i <= LoadAddrSize THEN 255 - strm[i]
        ELSE IF i > ColorStart
        THEN 16 * (15 - HighNibble(strm[i])) + LowNibble(strm[i])
        ELSE strm[i]]

\* C10: two full-length inputs that differ only in the load address, in
\* high nibbles of color RAM bytes or in the high nibble of the background
\* byte give, with the same saturation, the same raster and the same pixmap
\* byte for byte.
IgnoredBits ==
    /\ (pc = "header" /\ Len(stream) = FullLength) =>
        \A impl \in Implementations :
            Raster(Twin(stream), c64colors, impl) = img.outimage
    /\ (Converted /\ Len(stream) = FullLength) =>
        \A impl \in Implementations :
            Convert(Twin(stream), c64colors, impl) = stdout

\* a full-length picture has been converted with a palette of distinct
\* colors; it has a color RAM byte and a background byte with high nibbles
\* set, and its twin differs from it in all the ignored places
IgnoredBitsWitness ==
    /\ Converted
    /\ Len(stream) = FullLength
    /\ saturation = Num(1)
    /\ stream[FullLength] >= 16
    /\ stream[ColorStart + 1] >= 16
    /\ \A i \in (1..LoadAddrSize) \cup ((ColorStart + 1)..FullLength) :
        Twin(stream)[i] # stream[i]
    /\ \A i \in (LoadAddrSize + 1)..ColorStart : Twin(stream)[i] = stream[i]

====
